---- MODULE Spec2Model ----
(***************************************************************************)
(* Model of userspace/libsinsp/container_engine/containerd.cpp: the        *)
(* containerd container engine of libsinsp (socket discovery at            *)
(* construction, the List query, parse_containerd and resolve).            *)
(* Strings are sequences of one-character strings.                         *)
(***************************************************************************)
EXTENDS Integers, Sequences, FiniteSets, TLC

VARIABLES sock, phase, m_interface, tinfo, cache, add_log, notify_log,
          fatal, calls, last, pc, frame, failed_ids

vars == <<sock, phase, m_interface, tinfo, cache, add_log, notify_log,
          fatal, calls, last, pc, frame, failed_ids>>

----------------------------------------------------------------------------
(* Bounds of the model *)

\* number of observed processes (sinsp_threadinfo objects)
NProc == 4
\* number of resolve calls explored in one behaviour
MaxCalls == 2
\* width in bits of the modelled size_t (std::string::npos = 2^SizeWidth - 1)
SizeWidth == 16
\* length of a full container id in a cgroup path / at the daemon (64 in libsinsp)
CONTAINER_ID_LENGTH == 3
\* length of the truncated id reported by the cgroup matcher (12 in libsinsp)
REPORTED_CONTAINER_ID_LENGTH == 2

\* number of resolve calls explored when the calls run concurrently
MaxConcCalls == 2
\* sinsp_container_info::m_container_label_max_length (100 in libsinsp)
m_container_label_max_length == 2

Procs == 1..NProc

----------------------------------------------------------------------------
(* std::string helpers, on sequences of characters *)

Min(a, b) == IF a < b THEN a ELSE b

npos == 2^SizeWidth - 1

\* size_t addition (wraps around)
size_add(a, b) == (a + b) % (npos + 1)

\* std::string::rfind(ch): 0-based index of the last occurrence, or npos
rfind(s, ch) ==
    LET hits == {i \in 1..Len(s) : s[i] = ch}
    IN IF hits = {} THEN npos
       ELSE (CHOOSE i \in hits : \A j \in hits : j <= i) - 1

\* std::string::substr(pos, count) for pos <= size()
substr(s, pos, count) == SubSeq(s, pos + 1, pos + Min(count, Len(s) - pos))

\* std::string::rfind(str): 0-based index of the last occurrence of the
\* string, or npos
rfind_str(s, str) ==
    LET hits == {i \in 0..(Len(s) - Len(str)) : SubSeq(s, i + 1, i + Len(str)) = str}
    IN IF hits = {} THEN npos
       ELSE CHOOSE i \in hits : \A j \in hits : j <= i

IsPrefix(a, b) == Len(a) <= Len(b) /\ SubSeq(b, 1, Len(a)) = a

\* a occurs in b as a contiguous substring
Contains(b, a) ==
    \E i \in 0..(Len(b) - Len(a)) : SubSeq(b, i + 1, i + Len(a)) = a

\* sinsp_split(sv, delim): the delimiter-separated fields; {} for ""
RECURSIVE sinsp_split(_, _)
sinsp_split(s, delim) ==
    IF Len(s) = 0 THEN <<>>
    ELSE LET hits == {i \in 1..Len(s) : s[i] = delim}
         IN IF hits = {} THEN <<s>>
            ELSE LET i == CHOOSE k \in hits : \A j \in hits : k <= j
                     rest == SubSeq(s, i + 1, Len(s))
                 IN <<SubSeq(s, 1, i - 1)>> \o
                    (IF Len(rest) = 0 THEN <<rest>> ELSE sinsp_split(rest, delim))

----------------------------------------------------------------------------
(* Program constants *)

\* constexpr cgroup_layout CONTAINERD_CGROUP_LAYOUT[] = {{"/default/", ""}}
CONTAINERD_CGROUP_LAYOUT_wrong == <<[prefix |-> "system.slice", suffix |-> ""]>>
CONTAINERD_CGROUP_LAYOUT == <<[prefix |-> "default", suffix |-> ""]>>

CONTAINERD_SOCKETS ==
    <<"/run/host-containerd/containerd.sock",
      "/run/containerd/runtime2/containerd.sock">>

NSock == Len(CONTAINERD_SOCKETS)

CT_CONTAINERD == "CT_CONTAINERD"

----------------------------------------------------------------------------
(* Socket discovery and client construction *)

\* What stat() and the constructor's probe List call find at a candidate:
\*   missing   stat() fails
\*   notsock   exists, (st_mode & S_IFMT) != S_IFSOCK
\*   live_fail a socket whose probe List call returns a failed status
\*   live_ok   a socket whose probe List call succeeds
SockStates == {"missing", "notsock", "live_fail", "live_ok"}

is_socket(st) == st \in {"live_fail", "live_ok"}

\* containerd_interface::containerd_interface + is_ok(): m_stub survives
\* only when the probe List call succeeds
interface_is_ok(st) == st = "live_ok"

\* containerd::containerd: the loop over CONTAINERD_SOCKETS, from candidate i
\* on, with m_interface = iface (0 is nullptr, k > 0 the client of candidate k)
RECURSIVE ctor_loop(_, _, _)
ctor_loop(i, iface, s) ==
    IF i > NSock THEN iface
    ELSE IF Len(CONTAINERD_SOCKETS[i]) = 0 THEN ctor_loop(i + 1, iface, s)
    ELSE IF ~is_socket(s[i]) THEN ctor_loop(i + 1, iface, s)
    ELSE IF ~interface_is_ok(s[i]) THEN ctor_loop(i + 1, 0, s)
    ELSE ctor_loop(i + 1, i, s)

----------------------------------------------------------------------------
(* Processes and the cgroup matcher (libsinsp/runc) *)

IdChars == {"a", "b"}

\* all strings of length n over the set of characters cs
RECURSIVE Strings(_, _)
Strings(cs, n) ==
    IF n = 0 THEN {<<>>}
    ELSE {<<c>> \o s : c \in cs, s \in Strings(cs, n - 1)}

\* a full-length container id starting with c
FullId(c) == [i \in 1..CONTAINER_ID_LENGTH |-> IF i = 1 THEN c ELSE "a"]

\* a cgroup path: its directories and its last component
ContainerPath(c) == [dirs |-> <<"default">>, leaf |-> FullId(c)]
HostPath == [dirs |-> <<"system.slice">>, leaf |-> FullId("a")]

\* the cgroup set of a process, in the order of tinfo->cgroups()
Cgroups(cpu, memory, cpuset) ==
    <<[subsys |-> "cpu", path |-> cpu],
      [subsys |-> "memory", path |-> memory],
      [subsys |-> "cpuset", path |-> cpuset]>>

\* the observed processes: a host process, two processes of the container
\* a... (the first with its cpu controller left in a host cgroup), and a
\* process of the container b...
CgroupProfiles ==
    <<Cgroups(HostPath, HostPath, HostPath),
      Cgroups(HostPath, ContainerPath("a"), ContainerPath("a")),
      Cgroups(ContainerPath("a"), ContainerPath("a"), ContainerPath("a")),
      Cgroups(ContainerPath("b"), ContainerPath("b"), ContainerPath("b"))>>

ProfileOf(p) == CgroupProfiles[((p - 1) % Len(CgroupProfiles)) + 1]

\* sinsp_threadinfo::get_cgroup(subsys)
get_cgroup(t, subsys) ==
    LET hits == {i \in 1..Len(t.cgroups) : t.cgroups[i].subsys = subsys}
    IN (t.cgroups[CHOOSE i \in hits : TRUE]).path

\* runc match_one_container_id: the path ends in <prefix><full id><suffix>;
\* the reported id is the first REPORTED_CONTAINER_ID_LENGTH characters
match_one_container_id(path, layout) ==
    /\ Len(path.dirs) > 0
    /\ path.dirs[Len(path.dirs)] = layout.prefix
    /\ Len(path.leaf) = CONTAINER_ID_LENGTH
    /\ \A i \in 1..Len(path.leaf) : path.leaf[i] \in IdChars

\* runc matches_runc_cgroups: the first cgroup of the process that matches a
\* layout gives the truncated container id and the matched cgroup
matches_runc_cgroups(t, layouts) ==
    LET hits == {i \in 1..Len(t.cgroups) :
                    \E k \in 1..Len(layouts) :
                        match_one_container_id(t.cgroups[i].path, layouts[k])}
    IN IF hits = {}
       THEN [matched |-> FALSE, container_id |-> <<>>, cgroup |-> HostPath]
       ELSE LET i == CHOOSE k \in hits : \A j \in hits : k <= j
                path == t.cgroups[i].path
            IN [matched |-> TRUE,
                container_id |-> SubSeq(path.leaf, 1,
                                  Min(REPORTED_CONTAINER_ID_LENGTH, Len(path.leaf))),
                cgroup |-> path]

----------------------------------------------------------------------------
(* The daemon: ListContainers *)

\* image references the daemon may report
Images ==
    {<<"r", "/", "i", ":", "t">>,
     <<"h", "/", "r", "/", "i", ":", "t">>,
     <<"i", ":", "t">>,
     <<"r", "/", "i">>,
     <<"i">>,
     <<"h", ":", "p", "/", "i", ":", "t">>,
     <<>>}

DaemonIds == Strings(IdChars, CONTAINER_ID_LENGTH)

CanonicalImage == <<"r", "/", "i", ":", "t">>

\* the full id v... whose tail is all "a"
PadId(v) == [i \in 1..CONTAINER_ID_LENGTH |-> IF i <= Len(v) THEN v[i] ELSE "a"]

\* a label value of n characters
LabelValue(n) == [i \in 1..n |-> "x"]

\* label maps the daemon may report: none; a value of exactly the maximum
\* length next to a longer one; only a longer one; an empty and a short value
NoLabels == [k \in {} |-> <<>>]

LabelMaps ==
    {NoLabels,
     [k \in {"k1", "k2"} |-> IF k = "k1"
                              THEN LabelValue(m_container_label_max_length)
                              ELSE LabelValue(m_container_label_max_length + 1)],
     [k \in {"k1"} |-> LabelValue(m_container_label_max_length + 1)],
     [k \in {"k1", "k2"} |-> IF k = "k1"
                              THEN <<>>
                              ELSE LabelValue(m_container_label_max_length - 1)]}

\* option tokens of a mount
OptRo == <<"r", "o">>
OptRw == <<"r", "w">>
OptRox == <<"r", "o", "x">>
OptMode7 == <<"m", "o", "d", "e", "=", "7">>
OptMode5 == <<"m", "o", "d", "e", "=", "5">>
OptXMode == <<"x", "m", "o", "d", "e", "=", "7">>
OptModeMode == <<"m", "o", "d", "e", "=", "m", "o", "d", "e", "=", "7">>

\* a JSON member that may be absent: <<>> or <<value>>
JsonMount(source, destination, options) ==
    [source |-> source, destination |-> destination, options |-> options]

\* the Json::Value of a document without the consumed fields
JsonNull == [mounts |-> <<>>, rootfsPropagation |-> <<>>, env |-> <<>>]

\* the document of the specification's example: one read-only mount
JsonRo ==
    [mounts |-> <<JsonMount(<<"/host">>, <<"/mnt">>, <<OptRo>>)>>,
     rootfsPropagation |-> <<"rprivate">>,
     env |-> <<>>]

\* a document with several mounts and an environment
JsonMany ==
    [mounts |-> <<JsonMount(<<"/a">>, <<"/b">>, <<OptRw, OptMode7>>),
                  JsonMount(<<"/c">>, <<"/d">>, <<OptMode7, OptRo, OptMode5>>),
                  JsonMount(<<>>, <<"/e">>, <<OptRox, OptXMode>>),
                  JsonMount(<<"/f">>, <<>>, <<>>)>>,
     rootfsPropagation |-> <<"shared">>,
     env |-> <<"A=1", "B=2">>]

\* a document whose mode option has a value that itself holds mode=
JsonModeMode ==
    [mounts |-> <<JsonMount(<<"/g">>, <<"/h">>, <<OptModeMode>>)>>,
     rootfsPropagation |-> <<>>,
     env |-> <<"C=3">>]

\* what Json::Reader::parse(document, spec) returns and leaves in spec: a
\* document that parses gives its value; text that is not JSON leaves spec
\* null; a document that breaks off midway leaves the part read so far
SpecDocuments ==
    {[parse_ok |-> TRUE, root |-> JsonNull],
     [parse_ok |-> TRUE, root |-> JsonRo],
     [parse_ok |-> TRUE, root |-> JsonMany],
     [parse_ok |-> TRUE, root |-> JsonModeMode],
     [parse_ok |-> FALSE, root |-> JsonNull],
     [parse_ok |-> FALSE, root |-> JsonRo]}

CanonicalSpec == [parse_ok |-> TRUE, root |-> JsonNull]

\* the descriptors the daemon may hold for the filter value v: containers
\* with the canonical image, no labels and an empty document under any id;
\* and for the container a... also the descriptors that differ from that in
\* the image, the labels or the document, and one with labels and mounts
Descriptors(v) ==
    LET base == [id |-> PadId(v), image |-> CanonicalImage,
                 labels |-> NoLabels, spec |-> CanonicalSpec]
    IN {[base EXCEPT !.id = i] : i \in DaemonIds}
       \cup (IF PadId(v) # FullId("a") THEN {}
             ELSE {[base EXCEPT !.image = im] : im \in Images}
                  \cup {[base EXCEPT !.labels = l] : l \in LabelMaps}
                  \cup {[base EXCEPT !.spec = sd] : sd \in SpecDocuments}
                  \cup {[base EXCEPT !.labels = l,
                                     !.spec = [parse_ok |-> TRUE, root |-> JsonMany]] :
                           l \in {m \in LabelMaps : DOMAIN m = {"k1", "k2"}}})

\* containerd_interface::list_container_resp: the filter of the request
list_container_filter_wrong(container_id) == [field |-> "id", op |-> "~=", value |-> <<>>]
list_container_filter(container_id) == [field |-> "id", op |-> "~=", value |-> container_id]

\* the daemon's filter semantics: `id~=v` selects the ids that contain v
daemon_selects(filter, d) == Contains(d.id, filter.value)

\* the answers the daemon can give to a List call with the filter: a failed
\* status (transport error, deadline exceeded), or an OK status with zero,
\* one or two selected descriptors
ListResponses(filter) ==
    LET sel == {d \in Descriptors(filter.value) : daemon_selects(filter, d)}
        two == {d \in sel : d.image = CanonicalImage /\ d.labels = NoLabels
                                /\ d.spec = CanonicalSpec}
    IN {[status_ok |-> FALSE, containers |-> <<>>]}
       \cup {[status_ok |-> TRUE, containers |-> <<>>]}
       \cup {[status_ok |-> TRUE, containers |-> <<d>>] : d \in sel}
       \cup {[status_ok |-> TRUE, containers |-> <<pr[1], pr[2]>>] :
                pr \in {q \in two \X two : q[1].id # q[2].id /\ IsPrefix(filter.value, q[1].id)}}

----------------------------------------------------------------------------
(* The container record and the host-side collaborators *)

\* sinsp_container_info(): a fresh record
sinsp_container_info ==
    [m_id |-> <<>>, m_full_id |-> <<>>, m_name |-> <<>>,
     m_image |-> <<>>, m_imagerepo |-> <<>>, m_imagetag |-> <<>>,
     m_imagedigest |-> <<>>, m_type |-> "CT_UNKNOWN",
     m_lookup_status |-> "PENDING",
     m_labels |-> NoLabels, m_mounts |-> <<>>, m_env |-> <<>>,
     m_memory_limit |-> 0, m_cpu_shares |-> 1024, m_cpu_quota |-> 0,
     m_cpu_period |-> 100000, m_cpuset_cpu_count |-> 0]

\* cgroup_limits_key(container id, cpu, memory, cpuset cgroup)
cgroup_limits_key(id, cpu, memory, cpuset) ==
    [m_container_id |-> id, m_cpu_cgroup |-> cpu,
     m_mem_cgroup |-> memory, m_cpuset_cgroup |-> cpuset]

\* get_cgroup_resource_limits: what the host's cgroup filesystem holds for the
\* key's cgroups (a container cgroup carries limits, a host cgroup does not)
get_cgroup_resource_limits(key) ==
    [m_memory_limit |-> IF key.m_mem_cgroup.dirs = <<"default">> THEN 4096 ELSE 0,
     m_cpu_shares |-> IF key.m_cpu_cgroup.dirs = <<"default">> THEN 512 ELSE 1024,
     m_cpu_quota |-> IF key.m_cpu_cgroup.dirs = <<"default">> THEN 50000 ELSE 0,
     m_cpu_period |-> 100000,
     m_cpuset_cpu_count |-> IF key.m_cpuset_cgroup.dirs = <<"default">> THEN 2 ELSE 0]

\* container_cache_interface::should_lookup: the identity is not yet resolved
should_lookup(c, id, ctype) == <<id, ctype>> \notin c.m_lookups

\* container_cache_interface::add_container: marks the identity resolved and
\* stores the record unless the identity already has one
add_container(c, rec) ==
    [m_lookups |-> c.m_lookups \cup {<<rec.m_id, rec.m_type>>},
     m_containers |-> IF \E r \in c.m_containers : r.m_id = rec.m_id
                      THEN c.m_containers
                      ELSE c.m_containers \cup {rec}]

----------------------------------------------------------------------------
(* containerd::parse_containerd *)

\* what an out-of-bounds read of a std::string may yield when it does not fault
Garbage == {<<"?">>}

\* std::vector::operator[](k): the element, or any value when out of bounds
vector_at(v, k) == IF k < Len(v) THEN {v[k + 1]} ELSE Garbage

\* m_interface->list_container_resp(container_id, resp): the daemon's answers;
\* through a null m_interface the call is undefined: it faults, or returns
\* a status that was never set
list_container_resp(iface, container_id) ==
    IF iface = 0
    THEN {[crash |-> TRUE, status_ok |-> FALSE, containers |-> <<>>],
          [crash |-> FALSE, status_ok |-> FALSE, containers |-> <<>>]}
    ELSE {[crash |-> FALSE, status_ok |-> r.status_ok, containers |-> r.containers] :
             r \in ListResponses(list_container_filter(container_id))}

\* the checks of lines 117-140: status OK and exactly one descriptor
parse_accepts_first(resp) == resp.status_ok /\ Len(resp.containers) >= 1
parse_accepts(resp) == resp.status_ok /\ Len(resp.containers) = 1

\* m_full_id = containers[0].id()
parse_full_id_wrong(d) == d.image
parse_full_id(d) == d.id

\* m_imagerepo = raw_image_splits[0].substr(0, raw_image_splits[0].rfind("/"))
parse_imagerepo(first) == substr(first, 0, rfind(first, "/"))

\* m_image = raw_image_splits[0].substr(raw_image_splits[0].rfind("/") + 1)
parse_image(first) == substr(first, size_add(rfind(first, "/"), 1), npos)

\* lines 156-160: the labels whose value is not longer than the maximum
parse_label_kept_strict(value) == Len(value) < m_container_label_max_length
parse_label_kept(value) == Len(value) <= m_container_label_max_length

parse_labels(m_labels, labels) ==
    [k \in DOMAIN m_labels \cup {j \in DOMAIN labels : parse_label_kept(labels[j])} |->
        IF k \in DOMAIN labels /\ parse_label_kept(labels[k])
        THEN labels[k] ELSE m_labels[k]]

\* lines 163-166: reader.parse(containers[0].spec().value(), spec), whose
\* result is not looked at
json_parse(document) == document.root

\* Json::Value::asString() of a member that may be absent
asString(member) == IF member = <<>> THEN "" ELSE member[1]

\* lines 170-179: the loop over m["options"], from option i on
RECURSIVE parse_options(_, _, _, _)
parse_options(options, i, readonly, mode) ==
    IF i > Len(options) THEN [readonly |-> readonly, mode |-> mode]
    ELSE IF options[i] = <<"r", "o">>
    THEN parse_options(options, i + 1, TRUE, mode)
    ELSE IF rfind_str(options[i], <<"m", "o", "d", "e", "=">>) = 0
    THEN parse_options(options, i + 1, readonly, substr(options[i], 5, npos))
    ELSE parse_options(options, i + 1, readonly, mode)

\* lines 180-184: the mount entry appended for the mount m
parse_mount_writable(o) == ~o.readonly

parse_mount(spec, m) ==
    LET o == parse_options(m.options, 1, FALSE, <<>>)
    IN [m_source |-> asString(m.source),
        m_dest |-> asString(m.destination),
        m_mode |-> o.mode,
        m_rdwr |-> parse_mount_writable(o),
        m_propagation |-> asString(spec.rootfsPropagation)]

\* lines 169-185: for(const auto &m : spec["mounts"])
parse_mounts(m_mounts, spec) ==
    m_mounts \o [i \in 1..Len(spec.mounts) |-> parse_mount(spec, spec.mounts[i])]

\* lines 188-190: for(const auto &env : spec["process"]["env"])
parse_env(m_env, spec) == m_env \o spec.env

\* lines 143-190: the fields taken from the single descriptor d; the reads of
\* raw_image_splits[0] and [1] are out of bounds when the reference has no
\* such field, and then either fault or yield garbage
parse_fields(container, container_id, d) ==
    LET raw_image_splits == sinsp_split(d.image, ":")
        ub == Len(raw_image_splits) < 2
    IN {[crash |-> FALSE,
         container |-> [container EXCEPT
                          !.m_id = container_id,
                          !.m_full_id = parse_full_id(d),
                          !.m_image = parse_image(first),
                          !.m_imagerepo = parse_imagerepo(first),
                          !.m_imagetag = tag,
                          !.m_imagedigest = <<>>,
                          !.m_type = CT_CONTAINERD,
                          !.m_labels = parse_labels(container.m_labels, d.labels),
                          !.m_mounts = parse_mounts(container.m_mounts, json_parse(d.spec)),
                          !.m_env = parse_env(container.m_env, json_parse(d.spec))]] :
            first \in vector_at(raw_image_splits, 0),
            tag \in vector_at(raw_image_splits, 1)}
       \cup (IF ub THEN {[crash |-> TRUE, container |-> container]} ELSE {})

\* parse_containerd(container, container_id): the possible results
\*   ret = "false"  an early return, container untouched
\*   ret = "true"   container filled in
\*   ret = "none"   the call faulted
parse_containerd(iface, container, container_id) ==
    UNION {
      IF resp.crash
      THEN {[ret |-> "none", container |-> container, resp |-> resp]}
      ELSE IF ~parse_accepts(resp)
      THEN {[ret |-> "false", container |-> container, resp |-> resp]}
      ELSE {[ret |-> IF f.crash THEN "none" ELSE "true",
             container |-> f.container, resp |-> resp] :
               f \in parse_fields(container, container_id, resp.containers[1])}
      : resp \in list_container_resp(iface, container_id)}

----------------------------------------------------------------------------
(* containerd::resolve *)

\* line 208: tinfo->m_container_id = container_id
resolve_assoc_full(t, container, container_id) ==
    [t EXCEPT !.m_container_id = container.m_full_id]
resolve_assoc(t, container, container_id) ==
    [t EXCEPT !.m_container_id = container_id]

\* lines 210-213: the key handed to get_cgroup_resource_limits
resolve_limits_key_cpu(t, container) ==
    cgroup_limits_key(container.m_id, get_cgroup(t, "cpu"),
                      get_cgroup(t, "cpu"), get_cgroup(t, "cpu"))
resolve_limits_key(t, container) ==
    cgroup_limits_key(container.m_id, get_cgroup(t, "cpu"),
                      get_cgroup(t, "memory"), get_cgroup(t, "cpuset"))

\* lines 218-222: the limits copied into the record
resolve_set_limits(container, limits) ==
    [container EXCEPT !.m_memory_limit = limits.m_memory_limit,
                      !.m_cpu_shares = limits.m_cpu_shares,
                      !.m_cpu_quota = limits.m_cpu_quota,
                      !.m_cpu_period = limits.m_cpu_period,
                      !.m_cpuset_cpu_count = limits.m_cpuset_cpu_count]

\* lines 197-222: the possible outcomes of resolve up to the cache lookup
\*   ret = "false"  returned false (no match, or parse_containerd failed)
\*   ret = "none"   faulted
\*   ret = "cont"   reached line 224 with the record and the limits
resolve_front(t, iface) ==
    LET m == matches_runc_cgroups(t, CONTAINERD_CGROUP_LAYOUT)
    IN IF ~m.matched
       THEN {[ret |-> "false", matched |-> FALSE, container_id |-> <<>>,
              list_calls |-> 0, null_deref |-> FALSE,
              status_ok |-> FALSE, containers |-> <<>>,
              tinfo |-> t, container |-> sinsp_container_info,
              limits_keys |-> <<>>]}
       ELSE {IF r.ret # "true"
             THEN [ret |-> r.ret, matched |-> TRUE, container_id |-> m.container_id,
                   list_calls |-> IF iface = 0 THEN 0 ELSE 1,
                   null_deref |-> (iface = 0),
                   status_ok |-> r.resp.status_ok, containers |-> r.resp.containers,
                   tinfo |-> t, container |-> r.container,
                   limits_keys |-> <<>>]
             ELSE LET t2 == resolve_assoc(t, r.container, m.container_id)
                      key == resolve_limits_key(t2, r.container)
                  IN [ret |-> "cont", matched |-> TRUE, container_id |-> m.container_id,
                      list_calls |-> IF iface = 0 THEN 0 ELSE 1,
                      null_deref |-> (iface = 0),
                      status_ok |-> r.resp.status_ok, containers |-> r.resp.containers,
                      tinfo |-> t2,
                      container |-> resolve_set_limits(r.container,
                                        get_cgroup_resource_limits(key)),
                      limits_keys |-> <<key>>]
             : r \in parse_containerd(iface, sinsp_container_info, m.container_id)}

\* line 224: if(container_cache().should_lookup(container.m_id, CT_CONTAINERD))
resolve_publishes_always(c, container) == TRUE
resolve_publishes(c, container) == should_lookup(c, container.m_id, CT_CONTAINERD)

\* lines 225-226: the record as handed to add_container
resolve_finish_unnamed(container) ==
    [container EXCEPT !.m_lookup_status = "SUCCESSFUL"]
resolve_finish(container) ==
    [container EXCEPT !.m_name = container.m_id,
                      !.m_lookup_status = "SUCCESSFUL"]

\* the container ids whose resolution failed at the daemon query (a failed
\* status, zero or several descriptors), after the outcome f
failed_after(ids, f) ==
    IF f.matched /\ f.list_calls = 1 /\ f.ret = "false"
    THEN ids \cup {f.container_id} ELSE ids

\* what a finished resolve call did, as seen by its caller
Observation(p, f, ret, pub, rb, cu, au, na, nn) ==
    [proc |-> p, ret |-> ret, matched |-> f.matched,
     container_id |-> f.container_id,
     list_calls |-> f.list_calls, null_deref |-> f.null_deref,
     status_ok |-> f.status_ok, ncontainers |-> Len(f.containers),
     limits_keys |-> f.limits_keys,
     image |-> IF Len(f.containers) = 1 THEN <<f.containers[1].image>> ELSE <<>>,
     parse_ok |-> IF Len(f.containers) = 1 THEN <<f.containers[1].spec.parse_ok>> ELSE <<>>,
     lookup_status |-> IF pub THEN resolve_finish(f.container).m_lookup_status
                       ELSE f.container.m_lookup_status,
     resolved_before |-> rb, published |-> pub,
     cache_unchanged |-> cu, assoc_unchanged |-> au,
     adds |-> na, notifies |-> nn]

----------------------------------------------------------------------------
(* State machine *)

Init ==
    /\ sock \in [1..NSock -> SockStates]
    /\ phase = "new"
    /\ m_interface = 0
    /\ tinfo = [p \in Procs |-> [cgroups |-> ProfileOf(p), m_container_id |-> <<>>]]
    /\ cache = [m_lookups |-> {}, m_containers |-> {}]
    /\ add_log = <<>>
    /\ notify_log = <<>>
    /\ fatal = FALSE
    /\ calls = 0
    /\ last = <<>>
    /\ pc = [p \in Procs |-> "idle"]
    /\ frame = [p \in Procs |-> <<>>]
    /\ failed_ids = {}

\* containerd::containerd(cache)
Construct ==
    /\ phase = "new"
    /\ phase' = "ready"
    /\ m_interface' = ctor_loop(1, 0, sock)
    /\ UNCHANGED <<sock, tinfo, cache, add_log, notify_log, fatal, calls, last,
                   pc, frame, failed_ids>>

\* containerd::resolve(tinfo, query_os_for_missing_info), called by the
\* single event-processing thread: the whole call
Resolve(p) ==
    /\ phase = "ready" /\ ~fatal /\ calls < MaxCalls
    /\ \A q \in Procs : pc[q] = "idle"
    /\ \E f \in resolve_front(tinfo[p], m_interface) :
         LET pub == f.ret = "cont" /\ resolve_publishes(cache, f.container)
             rec == resolve_finish(f.container)
             ret == IF f.ret = "cont" THEN "true" ELSE f.ret
         IN /\ calls' = calls + 1
            /\ fatal' = (f.ret = "none")
            /\ tinfo' = [tinfo EXCEPT ![p] = f.tinfo]
            /\ cache' = IF pub THEN add_container(cache, rec) ELSE cache
            /\ add_log' = IF pub
                          THEN Append(add_log,
                                 [rec |-> rec, proc |-> p, desc |-> f.containers[1],
                                  already |-> ~should_lookup(cache, rec.m_id, rec.m_type)])
                          ELSE add_log
            /\ notify_log' = IF pub
                             THEN Append(notify_log, [rec |-> rec, proc |-> p])
                             ELSE notify_log
            /\ last' = <<Observation(p, f, ret, pub,
                                      ~should_lookup(cache, f.container_id, CT_CONTAINERD),
                                      cache' = cache,
                                      f.tinfo.m_container_id = tinfo[p].m_container_id,
                                      Len(add_log') - Len(add_log),
                                      Len(notify_log') - Len(notify_log))>>
            /\ failed_ids' = failed_after(failed_ids, f)
    /\ UNCHANGED <<sock, phase, m_interface, pc, frame>>

Next == Construct \/ \E p \in Procs : Resolve(p)

Spec == Init /\ [][Next]_vars

----------------------------------------------------------------------------
(* resolve called from several threads at once: the calls interleave at the *)
(* cache operations of lines 224, 227 and 228                               *)

\* the outcomes of lines 197-222 drawn under concurrency: the daemon answers
\* with containers that differ in their id only (the interleaving of the
\* cache operations does not depend on the image, labels or document)
PlainAnswer(f) ==
    \A i \in 1..Len(f.containers) :
        /\ f.containers[i].image = CanonicalImage
        /\ f.containers[i].labels = NoLabels
        /\ f.containers[i].spec = CanonicalSpec

\* lines 197-222
RBegin(p) ==
    /\ phase = "ready" /\ ~fatal /\ calls < MaxConcCalls
    /\ pc[p] = "idle"
    /\ \E f \in {g \in resolve_front(tinfo[p], m_interface) : PlainAnswer(g)} :
         /\ calls' = calls + 1
         /\ fatal' = (f.ret = "none")
         /\ tinfo' = [tinfo EXCEPT ![p] = f.tinfo]
         /\ failed_ids' = failed_after(failed_ids, f)
         /\ IF f.ret = "cont"
            THEN /\ pc' = [pc EXCEPT ![p] = "check"]
                 /\ frame' = [frame EXCEPT ![p] =
                                <<[f |-> f,
                                   rb |-> ~should_lookup(cache, f.container_id, CT_CONTAINERD),
                                   au |-> f.tinfo.m_container_id = tinfo[p].m_container_id]>>]
                 /\ last' = last
            ELSE /\ last' = <<Observation(p, f, f.ret, FALSE,
                                          ~should_lookup(cache, f.container_id, CT_CONTAINERD),
                                          TRUE, TRUE, 0, 0)>>
                 /\ UNCHANGED <<pc, frame>>
    /\ UNCHANGED <<sock, phase, m_interface, cache, add_log, notify_log>>

\* line 224, and lines 225-226 or the return of line 230
RCheck(p) ==
    /\ ~fatal /\ pc[p] = "check"
    /\ LET fr == frame[p][1]
       IN IF resolve_publishes(cache, fr.f.container)
          THEN /\ pc' = [pc EXCEPT ![p] = "add"]
               /\ frame' = [frame EXCEPT ![p] =
                              <<[fr EXCEPT !.f.container = resolve_finish(fr.f.container)]>>]
               /\ last' = last
          ELSE /\ pc' = [pc EXCEPT ![p] = "idle"]
               /\ frame' = [frame EXCEPT ![p] = <<>>]
               /\ last' = <<Observation(p, fr.f, "true", FALSE, fr.rb, TRUE, fr.au, 0, 0)>>
    /\ UNCHANGED <<sock, phase, m_interface, tinfo, cache, add_log, notify_log,
                   fatal, calls, failed_ids>>

\* line 227: add_container
RAdd(p) ==
    /\ ~fatal /\ pc[p] = "add"
    /\ LET rec == frame[p][1].f.container
       IN /\ cache' = add_container(cache, rec)
          /\ add_log' = Append(add_log,
                          [rec |-> rec, proc |-> p, desc |-> frame[p][1].f.containers[1],
                           already |-> ~should_lookup(cache, rec.m_id, rec.m_type)])
    /\ pc' = [pc EXCEPT ![p] = "notify"]
    /\ UNCHANGED <<sock, phase, m_interface, tinfo, notify_log, fatal, calls,
                   last, frame, failed_ids>>

\* line 228: notify_new_container, and the return of line 230
RNotify(p) ==
    /\ ~fatal /\ pc[p] = "notify"
    /\ LET fr == frame[p][1]
       IN /\ notify_log' = Append(notify_log, [rec |-> fr.f.container, proc |-> p])
          /\ last' = <<Observation(p, fr.f, "true", TRUE, fr.rb, FALSE, fr.au, 1, 1)>>
    /\ pc' = [pc EXCEPT ![p] = "idle"]
    /\ frame' = [frame EXCEPT ![p] = <<>>]
    /\ UNCHANGED <<sock, phase, m_interface, tinfo, cache, add_log, fatal, calls,
                   failed_ids>>

NextConc ==
    \/ Construct
    \/ \E p \in Procs : RBegin(p) \/ RCheck(p) \/ RAdd(p) \/ RNotify(p)

SpecConc == Init /\ [][NextConc]_vars

TypeOK ==
    /\ phase \in {"new", "ready"}
    /\ m_interface \in 0..NSock
    /\ fatal \in BOOLEAN
    /\ calls \in 0..MaxCalls
    /\ Len(last) <= 1

----------------------------------------------------------------------------
(* Properties *)

Obs == last[1]

\* the entries of a log that concern the container id
EntriesOf(log, id) == {i \in DOMAIN log : log[i].rec.m_id = id}

\* the first candidate, in list order, that exists as a socket (0: none)
FirstLiveSocket ==
    IF \E i \in 1..NSock : sock[i] \in {"live_ok", "live_fail"}
    THEN CHOOSE i \in 1..NSock :
            /\ sock[i] \in {"live_ok", "live_fail"}
            /\ \A j \in 1..(i - 1) : sock[j] \notin {"live_ok", "live_fail"}
    ELSE 0

\* C1: after construction the backend is bound to the first candidate in list
\* order that is a live socket: when the client obtained from that candidate
\* is usable, no later candidate replaces it or discards it.
C1_FirstLiveSocketWins ==
    (phase = "ready" /\ FirstLiveSocket # 0 /\ sock[FirstLiveSocket] = "live_ok")
        => m_interface = FirstLiveSocket

\* C2: when construction ended with no usable client, every resolve call
\* returns false without a daemon query and without a fatal state, also for a
\* process whose cgroup path matches the layout.
C2_UnusableBackendReturnsFalse ==
    (phase = "ready" /\ m_interface = 0 /\ last # <<>>)
        => /\ Obs.ret = "false"
           /\ Obs.list_calls = 0
           /\ ~Obs.null_deref
           /\ ~fatal

\* C3: when the daemon query of a matched process ends in a failed status, in
\* zero descriptors or in more than one descriptor, resolve returns false,
\* publishes nothing, notifies nobody and leaves the process's container
\* association as it was.
C3_FailedQueryLeavesStateUntouched ==
    (last # <<>> /\ Obs.matched /\ Obs.list_calls = 1
       /\ (~Obs.status_ok \/ Obs.ncontainers = 0 \/ Obs.ncontainers > 1))
        => /\ Obs.ret = "false"
           /\ ~Obs.published /\ Obs.adds = 0 /\ Obs.notifies = 0
           /\ Obs.cache_unchanged
           /\ Obs.assoc_unchanged

C3_Witness ==
    /\ last # <<>> /\ Obs.matched /\ Obs.list_calls = 1
    /\ Obs.status_ok /\ Obs.ncontainers > 1
    /\ Obs.ret = "false"
    /\ tinfo[Obs.proc].m_container_id # <<>>
    /\ cache.m_lookups # {}

\* some cgroup path of the process has the directory /default/ in it
HasDefaultInfix(p) ==
    \E i \in 1..Len(tinfo[p].cgroups) :
        \E k \in 1..Len(tinfo[p].cgroups[i].path.dirs) :
            tinfo[p].cgroups[i].path.dirs[k] = "default"

\* C4: for a process none of whose cgroup paths has the infix /default/,
\* resolve returns false, issues no List call, does not mutate the cache and
\* does not change the process's container association.
C4_NoMatchIsInert ==
    (last # <<>> /\ ~HasDefaultInfix(Obs.proc))
        => /\ Obs.ret = "false"
           /\ Obs.list_calls = 0 /\ ~Obs.null_deref
           /\ Obs.cache_unchanged /\ Obs.adds = 0 /\ Obs.notifies = 0
           /\ Obs.assoc_unchanged
           /\ tinfo[Obs.proc].m_container_id = <<>>

C4_Witness ==
    /\ last # <<>> /\ ~HasDefaultInfix(Obs.proc)
    /\ Obs.ret = "false"
    /\ m_interface # 0
    /\ cache.m_lookups # {}

C6_OnePublicationUnderConcurrency ==
    \A i \in DOMAIN add_log :
        /\ ~add_log[i].already
        /\ Cardinality(EntriesOf(add_log, add_log[i].rec.m_id)) = 1

\* the key of the limits of process p for the container id
ExpectedLimitsKey(p, id) ==
    [m_container_id |-> id,
     m_cpu_cgroup |-> ProfileOf(p)[1].path,
     m_mem_cgroup |-> ProfileOf(p)[2].path,
     m_cpuset_cgroup |-> ProfileOf(p)[3].path]

\* C7 (as stated): in every resolve call whose cgroup match succeeds, the
\* limits are computed for the process's cpu, memory and cpuset cgroups,
\* whatever the outcome of the daemon List call.
C7_LimitsWhateverTheQuery ==
    (last # <<>> /\ Obs.matched /\ Obs.list_calls = 1 /\ Obs.ret # "none")
        => Obs.limits_keys = <<ExpectedLimitsKey(Obs.proc, Obs.container_id)>>

\* C7 (amended): the limits are computed exactly in the calls that return
\* true, once, for the process's cpu, memory and cpuset cgroups, whether or
\* not the identity was already resolved; a call that returns false computes
\* no limits.
C7_LimitsIffResolved ==
    last # <<>> =>
        /\ Obs.ret = "true" =>
             Obs.limits_keys = <<ExpectedLimitsKey(Obs.proc, Obs.container_id)>>
        /\ Obs.ret = "false" => Obs.limits_keys = <<>>

C7_Witness ==
    /\ last # <<>> /\ Obs.ret = "true"
    /\ Obs.resolved_before /\ ~Obs.published
    /\ Obs.limits_keys # <<>>
    /\ Obs.limits_keys[1].m_cpu_cgroup # Obs.limits_keys[1].m_mem_cgroup

\* C8 (as stated): in every published record m_id is a prefix of m_full_id.
C8_IdIsPrefixOfFullId ==
    \A i \in DOMAIN add_log :
        /\ Len(add_log[i].rec.m_id) <= Len(add_log[i].rec.m_full_id)
        /\ \A k \in 1..Len(add_log[i].rec.m_id) :
              add_log[i].rec.m_id[k] = add_log[i].rec.m_full_id[k]

\* C8 (amended): in every published record m_full_id is the id the daemon
\* reported and m_id occurs in it as a contiguous substring.
C8_IdIsSubstringOfFullId ==
    \A i \in DOMAIN add_log :
        LET id == add_log[i].rec.m_id
            full == add_log[i].rec.m_full_id
        IN /\ full = add_log[i].desc.id
           /\ \E o \in 0..(Len(full) - Len(id)) :
                 \A k \in 1..Len(id) : full[o + k] = id[k]

C8_Witness ==
    \E i \in DOMAIN add_log :
        /\ add_log[i].rec.m_id # <<>>
        /\ add_log[i].rec.m_full_id[1] # add_log[i].rec.m_id[1]

\* C9: when the descriptor's image reference has no "/" (as in
\* ubuntu:22.04, a name and a tag), the record's repo is the empty string.
C9_NoSlashGivesEmptyRepo ==
    \A i \in DOMAIN add_log :
        LET ref == add_log[i].desc.image
        IN ((\A k \in 1..Len(ref) : ref[k] # "/") /\ (\E k \in 1..Len(ref) : ref[k] = ":"))
              => add_log[i].rec.m_imagerepo = <<>>

\* the truncated id in the cgroup paths of process p
TruncatedIdOf(p) ==
    LET hits == {i \in 1..Len(ProfileOf(p)) : ProfileOf(p)[i].path.dirs = <<"default">>}
        i == CHOOSE k \in hits : \A j \in hits : k <= j
    IN [k \in 1..REPORTED_CONTAINER_ID_LENGTH |-> ProfileOf(p)[i].path.leaf[k]]

\* C10: whenever resolve returns true, the process's container id is the
\* truncated id of its cgroup path, whether the record was published or the
\* publication was skipped.
C10_TrueMeansAssociated ==
    (last # <<>> /\ Obs.ret = "true")
        => tinfo[Obs.proc].m_container_id = TruncatedIdOf(Obs.proc)

C10_Witness ==
    /\ last # <<>> /\ Obs.ret = "true"
    /\ Obs.resolved_before /\ ~Obs.published
    /\ ~Obs.assoc_unchanged
    /\ tinfo[Obs.proc].m_container_id # <<>>

\* the last position of the character ch in ref (0: none)
LastIndexOf(ref, ch) ==
    LET hits == {k \in 1..Len(ref) : ref[k] = ch}
    IN IF hits = {} THEN 0 ELSE CHOOSE k \in hits : \A j \in hits : j <= k

\* the reference has the form <repo-path>/<image>:<tag>: a last "/" with a
\* non-empty path before it, then a non-empty name, the tag separator ":" and
\* a non-empty tag
IsRepoImageTag(ref) ==
    LET s == LastIndexOf(ref, "/")
        c == LastIndexOf(ref, ":")
    IN s > 1 /\ c > s + 1 /\ c < Len(ref)

\* C11: for every image reference of the form <repo-path>/<image>:<tag> the
\* published record has the repo equal to the part before the last "/", the
\* image equal to the part between the last "/" and the tag separator, the
\* tag equal to the part after it, and an empty digest.
C11_RepoImageTag ==
    \A i \in DOMAIN add_log :
        LET ref == add_log[i].desc.image
            rec == add_log[i].rec
            s == LastIndexOf(ref, "/")
            c == LastIndexOf(ref, ":")
        IN IsRepoImageTag(ref)
              => /\ rec.m_imagerepo = SubSeq(ref, 1, s - 1)
                 /\ rec.m_image = SubSeq(ref, s + 1, c - 1)
                 /\ rec.m_imagetag = SubSeq(ref, c + 1, Len(ref))
                 /\ rec.m_imagedigest = <<>>

\* C12: when the single descriptor's image reference holds no ":", resolve
\* does not fault, returns a boolean, and leaves the cache and the process's
\* container association as they were.
C12_NoTagSeparatorFailsCleanly ==
    (/\ last # <<>>
     /\ Obs.status_ok /\ Obs.ncontainers = 1
     /\ \A k \in 1..Len(Obs.image[1]) : Obs.image[1][k] # ":")
        => /\ ~fatal
           /\ Obs.ret \in {"true", "false"}
           /\ Obs.cache_unchanged
           /\ Obs.assoc_unchanged

\* C13: the published record's labels are exactly the daemon's entries whose
\* value is not longer than the configured maximum: an entry of exactly the
\* maximum length is kept, a longer one is dropped, and no label value of a
\* published record exceeds the maximum.
C13_LabelsWithinMaxLength ==
    \A i \in DOMAIN add_log :
        LET labels == add_log[i].desc.labels
            rec == add_log[i].rec
        IN /\ DOMAIN rec.m_labels =
                {k \in DOMAIN labels : Len(labels[k]) <= m_container_label_max_length}
           /\ \A k \in DOMAIN rec.m_labels :
                /\ rec.m_labels[k] = labels[k]
                /\ Len(rec.m_labels[k]) <= m_container_label_max_length

\* a record was published from a label map with an entry of exactly the
\* maximum length, which was kept, and a longer one, which was dropped
C13_Witness ==
    \E i \in DOMAIN add_log :
        LET labels == add_log[i].desc.labels
            rec == add_log[i].rec
        IN /\ \E k \in DOMAIN labels :
                /\ Len(labels[k]) = m_container_label_max_length
                /\ k \in DOMAIN rec.m_labels
           /\ \E k \in DOMAIN labels :
                /\ Len(labels[k]) > m_container_label_max_length
                /\ k \notin DOMAIN rec.m_labels

\* the values of the option tokens of the form mode=<value>
ModeValues(options) ==
    {SubSeq(options[k], 6, Len(options[k])) :
        k \in {j \in 1..Len(options) : IsPrefix(<<"m", "o", "d", "e", "=">>, options[j])}}

\* C14: for every specification document, the record's mounts follow the
\* document's mount list in order, and for each mount: writable is false if
\* and only if some option token is exactly ro; mode is the value of an
\* option token of the form mode=<value>, and empty when there is none;
\* propagation is the document's linux.rootfsPropagation for every mount.
C14_MountsFollowDocument ==
    \A i \in DOMAIN add_log :
        LET doc == add_log[i].desc.spec
            mounts == add_log[i].rec.m_mounts
        IN doc.parse_ok =>
             /\ Len(mounts) = Len(doc.root.mounts)
             /\ \A k \in 1..Len(mounts) :
                  LET m == doc.root.mounts[k]
                  IN /\ mounts[k].m_source = asString(m.source)
                     /\ mounts[k].m_dest = asString(m.destination)
                     /\ mounts[k].m_rdwr =
                           ~(\E j \in 1..Len(m.options) : m.options[j] = <<"r", "o">>)
                     /\ IF ModeValues(m.options) = {}
                        THEN mounts[k].m_mode = <<>>
                        ELSE mounts[k].m_mode \in ModeValues(m.options)
                     /\ mounts[k].m_propagation = asString(doc.root.rootfsPropagation)

\* C15: when the single descriptor's specification document is unparsable,
\* resolve still returns true, and the published record has empty mounts and
\* an empty env while its identifiers, image fields, labels and limits are
\* filled in as for a parsable document.
C15_UnparsableDocumentGivesEmptyMounts ==
    (/\ last # <<>>
     /\ Obs.status_ok /\ Obs.ncontainers = 1
     /\ Obs.parse_ok = <<FALSE>>)
        => /\ Obs.ret = "true"
           /\ Obs.published =>
                LET rec == add_log[Len(add_log)].rec
                    desc == add_log[Len(add_log)].desc
                IN /\ rec.m_mounts = <<>>
                   /\ rec.m_env = <<>>
                   /\ rec.m_id = Obs.container_id
                   /\ rec.m_full_id = desc.id
                   /\ rec.m_type = CT_CONTAINERD
                   /\ rec.m_image = <<"i">> /\ rec.m_imagerepo = <<"r">>
                   /\ rec.m_imagetag = <<"t">>
                   /\ rec.m_labels = desc.labels
                   /\ Obs.limits_keys # <<>>

\* C16: one resolve call issues at most one daemon List call: none when the
\* cgroup match fails and exactly one otherwise, whatever the answer and
\* whatever the cache state; a failed List status gives a false return.
C16_ExactlyOneListCallPerMatch ==
    last # <<>> =>
        /\ Obs.list_calls = IF Obs.matched THEN 1 ELSE 0
        /\ (Obs.list_calls = 1 /\ ~Obs.status_ok) => Obs.ret = "false"

\* C17: a record is handed to the cache fully assembled and is not changed
\* afterwards: at add_container it has its id, full id, image fields, labels,
\* mounts, env and the five limits set, its name equal to its id and the
\* lookup state successful; the record given to notify_new_container equals
\* the one published; and the lookup state of a record that is not published
\* is never set to successful.
C17_PublishedRecordIsComplete ==
    /\ \A i \in DOMAIN add_log :
          LET rec == add_log[i].rec
              desc == add_log[i].desc
              p == add_log[i].proc
              limits == get_cgroup_resource_limits(ExpectedLimitsKey(p, rec.m_id))
          IN /\ rec.m_id = TruncatedIdOf(p)
             /\ rec.m_full_id = desc.id
             /\ rec.m_type = CT_CONTAINERD
             /\ rec.m_imagedigest = <<>>
             /\ (desc.image = CanonicalImage) =>
                   (rec.m_imagerepo = <<"r">> /\ rec.m_image = <<"i">>
                      /\ rec.m_imagetag = <<"t">>)
             /\ DOMAIN rec.m_labels \subseteq DOMAIN desc.labels
             /\ Len(rec.m_mounts) = Len(desc.spec.root.mounts)
             /\ rec.m_env = desc.spec.root.env
             /\ rec.m_memory_limit = limits.m_memory_limit
             /\ rec.m_cpu_shares = limits.m_cpu_shares
             /\ rec.m_cpu_quota = limits.m_cpu_quota
             /\ rec.m_cpu_period = limits.m_cpu_period
             /\ rec.m_cpuset_cpu_count = limits.m_cpuset_cpu_count
             /\ rec.m_name = rec.m_id
             /\ rec.m_lookup_status = "SUCCESSFUL"
             /\ ~add_log[i].already => rec \in cache.m_containers
    /\ Len(notify_log) = Len(add_log)
    /\ \A i \in DOMAIN notify_log :
          /\ notify_log[i].rec = add_log[i].rec
          /\ notify_log[i].proc = add_log[i].proc
    /\ (last # <<>> /\ ~Obs.published) => Obs.lookup_status # "SUCCESSFUL"

\* a record with labels, mounts, env and container limits was published and
\* notified, and a later call for its identity returned true without
\* publishing and without marking its own record
C17_Witness ==
    /\ last # <<>> /\ Obs.ret = "true" /\ ~Obs.published
    /\ Obs.lookup_status = "PENDING"
    /\ \E i \in DOMAIN add_log :
          /\ add_log[i].rec.m_id = Obs.container_id
          /\ DOMAIN add_log[i].rec.m_labels # {}
          /\ Len(add_log[i].rec.m_mounts) > 1
          /\ add_log[i].rec.m_env # <<>>
          /\ add_log[i].rec.m_memory_limit > 0
          /\ notify_log[i].rec = add_log[i].rec

\* C18: the process is associated with the container id before the cache is
\* consulted: in every state in which a call is about to test should_lookup,
\* to run add_container or to notify the observers for a process, that
\* process's container id already equals the id of the call's record.
C18_AssociatedBeforeCacheIsConsulted ==
    \A p \in Procs :
        pc[p] \in {"check", "add", "notify"}
            => /\ tinfo[p].m_container_id = frame[p][1].f.container.m_id
               /\ tinfo[p].m_container_id # <<>>

\* a call is about to run add_container while another one, for a process of
\* the same container, is about to notify
C18_Witness ==
    \E p, q \in Procs :
        /\ p # q
        /\ pc[p] = "add" /\ pc[q] = "notify"
        /\ tinfo[p].m_container_id = tinfo[q].m_container_id

\* C19: failures are not sticky: a resolve that returned false on a failed
\* List status or on zero or several descriptors leaves no lookup state in
\* the cache, and a later resolve of that identity which the daemon answers
\* with exactly one descriptor returns true and publishes the record.
C19_FailuresAreNotSticky ==
    /\ (last # <<>> /\ Obs.matched /\ Obs.list_calls = 1 /\ Obs.ret = "false")
          => Obs.cache_unchanged
    /\ (/\ last # <<>>
        /\ Obs.container_id \in failed_ids
        /\ Obs.status_ok /\ Obs.ncontainers = 1
        /\ ~Obs.resolved_before)
          => (Obs.ret = "true" /\ Obs.published)

====
